---- MODULE Spec2Model ----
(***************************************************************************)
(* peach-monitor (src/src/main.rs): one invocation of `main` per process,  *)
(* running against the shared key-value store.  A process optionally       *)
(* accumulates the probe's byte counts into the stored totals (--save),    *)
(* optionally lists (--list), and optionally runs the daemon loop          *)
(* (--daemon) that loads the thresholds and sets the four alert flags      *)
(* every tick until SIGINT/SIGTERM clears the `running` flag.              *)
(*                                                                         *)
(* Every store access (get / set) is one step, so that a failure or a      *)
(* signal can fall between any two of them.                                *)
(***************************************************************************)
EXTENDS Integers, Sequences, FiniteSets, TLC

VARIABLES
    store,       \* the nest::Store: key path -> Value (or Absent)
    pc,          \* per process: position in main / the called function
    opt,         \* per process: the parsed Opt {daemon, list, save}
    running,     \* per process: the AtomicBool the ctrlc handler clears
    thresholds,  \* per process: the Thresholds loaded in this iteration
    rx_stored,   \* per process: local `rx_stored` of the running function
    tx_stored,   \* per process: local `tx_stored` of the running function
    traffic,     \* per process: local `traffic` (Option<Traffic>)
    result,      \* per process: Result returned by update_transmission_totals
    panic,       \* per process: source line of the panic that ended it
    stdout,      \* per process: lines printed so far
    wrote,       \* per process: keys written by the function call in progress
    lastEval,    \* per process: the store as the previous evaluation left it
    before,      \* per process: the store when update_transmission_totals was called
    calls,       \* per process: calls of update_transmission_totals so far
    overlap      \* some call of update_transmission_totals began during another

vars == <<store, pc, opt, running, thresholds, rx_stored, tx_stored, traffic,
          result, panic, stdout, wrote, lastEval, before, calls, overlap>>

----------------------------------------------------------------------------
(* Bounds *)

\* Largest value of the unsigned integer type standing for u64 (u64::MAX).
MaxUint == 3

Modulus == MaxUint + 1

U == 0..MaxUint

Procs == {"p1", "p2"}

\* Interfaces the probe may report; the monitored one is hard-wired.
Ifaces == {"wlan0", "eth0"}

MonitoredIface == "wlan0"

----------------------------------------------------------------------------
(* nest::Value, as far as the program tells its variants apart *)

Absent == [k |-> "Absent"]

Uint(n) == [k |-> "Uint", n |-> n]

Bool(b) == [k |-> "Bool", b |-> b]

\* Any variant that is neither Uint nor Bool (here: String).
Str == [k |-> "String"]

IsUint(v) == v.k = "Uint"

RX == <<"net", "traffic", "rx">>

TX == <<"net", "traffic", "tx">>

RX_WARN == <<"net", "thresholds", "rx_warn">>

TX_WARN == <<"net", "thresholds", "tx_warn">>

RX_CRIT == <<"net", "thresholds", "rx_crit">>

TX_CRIT == <<"net", "thresholds", "tx_crit">>

RX_WARN_ALERT == <<"net", "alerts", "rx_warn_alert">>

TX_WARN_ALERT == <<"net", "alerts", "tx_warn_alert">>

RX_CRIT_ALERT == <<"net", "alerts", "rx_crit_alert">>

TX_CRIT_ALERT == <<"net", "alerts", "tx_crit_alert">>

TrafficKeys == {RX, TX}

ThresholdKeys == {RX_WARN, TX_WARN, RX_CRIT, TX_CRIT}

AlertKeys == {RX_WARN_ALERT, TX_WARN_ALERT, RX_CRIT_ALERT, TX_CRIT_ALERT}

Keys == TrafficKeys \cup ThresholdKeys \cup AlertKeys

\* store.get(path): Err when nothing is stored under the path.
StoreGet(s, key) ==
    IF s[key] = Absent THEN [ok |-> FALSE] ELSE [ok |-> TRUE, val |-> s[key]]

\* Result::unwrap_or
UnwrapOr(r, default) == IF r.ok THEN r.val ELSE default

\* store.set(path, value), when it succeeds.
StoreSet(s, key, value) == [s EXCEPT ![key] = value]

----------------------------------------------------------------------------
(* Traffic::get *)

None == [k |-> "None"]

Some(rx, tx) == [k |-> "Some", rx |-> rx, tx |-> tx]

Entries == [name : Ifaces, received : U, transmitted : U]

\* network::read(): the interfaces the probe reports, each name once.
Reports ==
    { r \in UNION { [1..n -> Entries] : n \in 0..Cardinality(Ifaces) } :
        \A i, j \in DOMAIN r : i # j => r[i].name # r[j].name }

RECURSIVE TrafficScan(_, _, _)
TrafficScan(report, i, iface) ==
    IF i > Len(report) THEN None
    ELSE IF report[i].name = iface
         THEN Some(report[i].received, report[i].transmitted)
         ELSE TrafficScan(report, i + 1, iface)

\* Faulty variant: the name is not compared, the first interface is taken.
TrafficGetFirst(report, iface) ==
    IF Len(report) = 0 THEN None
    ELSE Some(report[1].received, report[1].transmitted)

TrafficGet(report, iface) == TrafficScan(report, 1, iface)

----------------------------------------------------------------------------
(* Thresholds::get *)

\* `if let Value::Uint(x) = val { thresholds.push(x) }`
PushIfUint(vec, val) == IF IsUint(val) THEN Append(vec, val.n) ELSE vec

\* Faulty variant: a missing threshold is read as the largest value (never exceeded).
ThresholdsVecMaxDefault(s) ==
    LET v1 == PushIfUint(<< >>, UnwrapOr(StoreGet(s, RX_WARN), Uint(MaxUint)))
        v2 == PushIfUint(v1, UnwrapOr(StoreGet(s, TX_WARN), Uint(MaxUint)))
        v3 == PushIfUint(v2, UnwrapOr(StoreGet(s, RX_CRIT), Uint(MaxUint)))
        v4 == PushIfUint(v3, UnwrapOr(StoreGet(s, TX_CRIT), Uint(MaxUint)))
    IN  v4

ThresholdsVec(s) ==
    LET v1 == PushIfUint(<< >>, UnwrapOr(StoreGet(s, RX_WARN), Uint(0)))
        v2 == PushIfUint(v1, UnwrapOr(StoreGet(s, TX_WARN), Uint(0)))
        v3 == PushIfUint(v2, UnwrapOr(StoreGet(s, RX_CRIT), Uint(0)))
        v4 == PushIfUint(v3, UnwrapOr(StoreGet(s, TX_CRIT), Uint(0)))
    IN  v4

NoThresholds == [k |-> "None"]

\* The struct literal: indexing past the vector's end panics.
ThresholdsOf(vec) ==
    [k |-> "Thresholds", rx_warn |-> vec[1], tx_warn |-> vec[2],
     rx_crit |-> vec[3], tx_crit |-> vec[4]]

----------------------------------------------------------------------------
(* set_alert_flags: the comparison *)

\* Faulty variant: the comparison is not strict.
ExceedsOrEquals(total, threshold) == total >= threshold

Exceeds(total, threshold) == total > threshold

----------------------------------------------------------------------------
(* update_transmission_totals: reading and adding *)

\* Faulty variant: a missing key is read as a value that is no number.
StoredOrNull(s, key) == UnwrapOr(StoreGet(s, key), Str)

\* `match store.get(..) { Ok(v) => v, Err(_) => Value::Uint(u64::MIN) }`
StoredOrZero(s, key) == UnwrapOr(StoreGet(s, key), Uint(0))

\* u64 `+` with overflow checks off (release profile): wraps.
WrappingAdd(a, b) == (a + b) % Modulus

Overflows(a, b) == a + b > MaxUint

\* u64 `a + b`: the sum; past u64::MAX the build decides, a panic ("attempt to
\* add with overflow", overflow checks on) or the wrapped sum (checks off).
U64Add(a, b) ==
    IF Overflows(a, b)
    THEN {[k |-> "panic"], [k |-> "sum", n |-> WrappingAdd(a, b)]}
    ELSE {[k |-> "sum", n |-> a + b]}

----------------------------------------------------------------------------
(* Initial states *)

NoVal == [k |-> "Unset"]

\* No snapshot of the store has been taken: a store with every key unset.
NoStore == [key \in Keys |-> NoVal]

Opts == [daemon : BOOLEAN, list : BOOLEAN, save : BOOLEAN]

NoOpt == [daemon |-> FALSE, list |-> FALSE, save |-> FALSE]

StoredValues == {Absent, Str} \cup { Uint(n) : n \in U }

AllAlerts(v) == [key \in AlertKeys |-> v]

AlertInits == {AllAlerts(Absent), AllAlerts(Bool(TRUE)), AllAlerts(Bool(FALSE))}

MkStore(tr, th, al) ==
    [key \in Keys |->
        IF key \in TrafficKeys THEN tr[key]
        ELSE IF key \in ThresholdKeys THEN th[key] ELSE al[key]]

\* Stores whose totals vary freely while no threshold is configured.
TotalsStores ==
    { MkStore(tr, [key \in ThresholdKeys |-> Absent], al) :
        tr \in [TrafficKeys -> StoredValues], al \in AlertInits }

\* Stores whose thresholds vary freely over a few totals.
ThresholdsStores ==
    { MkStore(tr, th, AllAlerts(Absent)) :
        tr \in [TrafficKeys -> {Uint(1), Uint(2)}],
        th \in [ThresholdKeys -> StoredValues] }

InitLocals ==
    /\ running = [p \in Procs |-> TRUE]
    /\ thresholds = [p \in Procs |-> NoThresholds]
    /\ rx_stored = [p \in Procs |-> NoVal]
    /\ tx_stored = [p \in Procs |-> NoVal]
    /\ traffic = [p \in Procs |-> None]
    /\ result = [p \in Procs |-> "none"]
    /\ panic = [p \in Procs |-> 0]
    /\ stdout = [p \in Procs |-> << >>]
    /\ wrote = [p \in Procs |-> << >>]
    /\ lastEval = [p \in Procs |-> NoStore]
    /\ before = [p \in Procs |-> NoStore]
    /\ calls = [p \in Procs |-> 0]
    /\ overlap = FALSE

\* One invocation (p1) after the store has been opened (main, lines 186-205).
Init ==
    /\ InitLocals
    /\ pc = [p \in Procs |-> IF p = "p1" THEN "main_save" ELSE "off"]
    /\ \/ /\ store \in TotalsStores
          /\ \E o \in Opts : opt = [p \in Procs |-> IF p = "p1" THEN o ELSE NoOpt]
       \/ /\ store \in ThresholdsStores
          /\ opt = [p \in Procs |->
                      IF p = "p1" THEN [daemon |-> TRUE, list |-> FALSE, save |-> FALSE]
                      ELSE NoOpt]

----------------------------------------------------------------------------
(* Steps *)

Upd(f, p, v) == [f EXCEPT ![p] = v]

\* A panic unwinds main: the process ends at the given source line.
Panic(p, line) ==
    /\ pc' = Upd(pc, p, "panicked")
    /\ panic' = Upd(panic, p, line)

\* Positions inside update_transmission_totals, before it returns.
AccPcs == {"acc_read_rx", "acc_read_tx", "acc_probe", "acc_write_rx", "acc_write_tx"}

\* Faulty variant: the daemon flag suppresses the one-shot accumulation.
MainSaveUnlessDaemon(p) ==
    /\ pc[p] = "main_save"
    /\ LET save == opt[p].save /\ ~opt[p].daemon IN
       /\ pc' = Upd(pc, p, IF save THEN "acc_read_rx" ELSE "main_list")
       /\ wrote' = Upd(wrote, p, << >>)
       /\ before' = Upd(before, p, IF save THEN store ELSE before[p])
       /\ calls' = Upd(calls, p, IF save THEN calls[p] + 1 ELSE calls[p])
       /\ overlap' = (overlap \/ (save /\ \E q \in Procs \ {p} : pc[q] \in AccPcs))
    /\ UNCHANGED <<store, opt, running, thresholds, rx_stored, tx_stored,
                   traffic, result, panic, stdout, lastEval>>

\* main, lines 207-210: `if opt.save { update_transmission_totals(..).unwrap() }`
MainSave(p) ==
    /\ pc[p] = "main_save"
    /\ pc' = Upd(pc, p, IF opt[p].save THEN "acc_read_rx" ELSE "main_list")
    /\ wrote' = Upd(wrote, p, << >>)
    /\ before' = Upd(before, p, IF opt[p].save THEN store ELSE before[p])
    /\ calls' = Upd(calls, p, IF opt[p].save THEN calls[p] + 1 ELSE calls[p])
    /\ overlap' = (overlap \/ (opt[p].save /\ \E q \in Procs \ {p} : pc[q] \in AccPcs))
    /\ UNCHANGED <<store, opt, running, thresholds, rx_stored, tx_stored,
                   traffic, result, panic, stdout, lastEval>>

\* update_transmission_totals, lines 155-159
AccReadRx(p) ==
    /\ pc[p] = "acc_read_rx"
    /\ rx_stored' = Upd(rx_stored, p, StoredOrZero(store, RX))
    /\ pc' = Upd(pc, p, "acc_read_tx")
    /\ UNCHANGED <<store, opt, running, thresholds, tx_stored, traffic, result,
                   panic, stdout, wrote, lastEval, before, calls, overlap>>

\* update_transmission_totals, lines 160-164
AccReadTx(p) ==
    /\ pc[p] = "acc_read_tx"
    /\ tx_stored' = Upd(tx_stored, p, StoredOrZero(store, TX))
    /\ pc' = Upd(pc, p, "acc_probe")
    /\ UNCHANGED <<store, opt, running, thresholds, rx_stored, traffic, result,
                   panic, stdout, wrote, lastEval, before, calls, overlap>>

\* update_transmission_totals, line 167: `Traffic::get("wlan0").unwrap()`;
\* network::read().unwrap() (line 42) panics when the probe itself fails.
AccProbe(p) ==
    /\ pc[p] = "acc_probe"
    /\ \/ /\ Panic(p, 42)
          /\ UNCHANGED traffic
       \/ \E report \in Reports :
            LET t == TrafficGet(report, MonitoredIface) IN
            /\ traffic' = Upd(traffic, p, t)
            /\ IF t = None
               THEN Panic(p, 167)
               ELSE /\ pc' = Upd(pc, p, "acc_write_rx")
                    /\ UNCHANGED panic
    /\ UNCHANGED <<store, opt, running, thresholds, rx_stored, tx_stored,
                   result, stdout, wrote, lastEval, before, calls, overlap>>

\* Faulty variant: the block stores the sample itself, not the sum.
AccWriteSample(p, key, stored, sample, line, next) ==
    IF IsUint(stored)
    THEN \/ /\ store' = StoreSet(store, key, Uint(sample))
            /\ wrote' = Upd(wrote, p, Append(wrote[p], key))
            /\ pc' = Upd(pc, p, next)
            /\ result' = Upd(result, p, IF next = "acc_ret" THEN "Ok" ELSE result[p])
            /\ UNCHANGED panic
         \/ /\ result' = Upd(result, p, "Err")
            /\ pc' = Upd(pc, p, "acc_ret")
            /\ UNCHANGED <<store, wrote, panic>>
    ELSE /\ pc' = Upd(pc, p, next)
         /\ result' = Upd(result, p, IF next = "acc_ret" THEN "Ok" ELSE result[p])
         /\ UNCHANGED <<store, wrote, panic>>

\* One `if let Value::Uint(x) = stored { store.set(key, x + sample)?; }` block
\* of update_transmission_totals: `next` is where control goes on, `line` is
\* the line of the addition.
AccWrite(p, key, stored, sample, line, next) ==
    IF IsUint(stored)
    THEN \E sum \in U64Add(stored.n, sample) :
           IF sum.k = "panic"
           THEN /\ Panic(p, line)
                /\ UNCHANGED <<store, wrote, result>>
           ELSE \/ /\ store' = StoreSet(store, key, Uint(sum.n))
                   /\ wrote' = Upd(wrote, p, Append(wrote[p], key))
                   /\ pc' = Upd(pc, p, next)
                   /\ result' = Upd(result, p, IF next = "acc_ret" THEN "Ok" ELSE result[p])
                   /\ UNCHANGED panic
                \* store.set fails: `?` returns the error
                \/ /\ result' = Upd(result, p, "Err")
                   /\ pc' = Upd(pc, p, "acc_ret")
                   /\ UNCHANGED <<store, wrote, panic>>
    ELSE /\ pc' = Upd(pc, p, next)
         /\ result' = Upd(result, p, IF next = "acc_ret" THEN "Ok" ELSE result[p])
         /\ UNCHANGED <<store, wrote, panic>>

\* update_transmission_totals, lines 170-174
AccWriteRx(p) ==
    /\ pc[p] = "acc_write_rx"
    /\ AccWrite(p, RX, rx_stored[p], traffic[p].rx, 171, "acc_write_tx")
    /\ UNCHANGED <<opt, running, thresholds, rx_stored, tx_stored, traffic,
                   stdout, lastEval, before, calls, overlap>>

\* update_transmission_totals, lines 175-181
AccWriteTx(p) ==
    /\ pc[p] = "acc_write_tx"
    /\ AccWrite(p, TX, tx_stored[p], traffic[p].tx, 176, "acc_ret")
    /\ UNCHANGED <<opt, running, thresholds, rx_stored, tx_stored, traffic,
                   stdout, lastEval, before, calls, overlap>>

\* main, line 209: `.unwrap()` of the returned Result; the callee's locals die.
SaveUnwrap(p) ==
    /\ pc[p] = "acc_ret"
    /\ IF result[p] = "Ok"
       THEN /\ pc' = Upd(pc, p, "main_list")
            /\ UNCHANGED panic
       ELSE Panic(p, 209)
    /\ rx_stored' = Upd(rx_stored, p, NoVal)
    /\ tx_stored' = Upd(tx_stored, p, NoVal)
    /\ traffic' = Upd(traffic, p, None)
    /\ result' = Upd(result, p, "none")
    /\ before' = Upd(before, p, NoStore)
    /\ UNCHANGED <<store, opt, running, thresholds, stdout, wrote, lastEval,
                   calls, overlap>>

\* main, lines 212-215
MainList(p) ==
    /\ pc[p] = "main_list"
    /\ stdout' = Upd(stdout, p, IF opt[p].list
                                THEN Append(stdout[p], "Pretty list of data")
                                ELSE stdout[p])
    /\ pc' = Upd(pc, p, "main_daemon")
    /\ UNCHANGED <<store, opt, running, thresholds, rx_stored, tx_stored,
                   traffic, result, panic, wrote, lastEval, before,
                   calls, overlap>>

\* main, lines 217-225: the cancellation flag and its handler
MainDaemon(p) ==
    /\ pc[p] = "main_daemon"
    /\ IF opt[p].daemon
       THEN /\ running' = Upd(running, p, TRUE)
            /\ pc' = Upd(pc, p, "loop_check")
       ELSE /\ pc' = Upd(pc, p, "main_ret")
            /\ UNCHANGED running
    /\ UNCHANGED <<store, opt, thresholds, rx_stored, tx_stored, traffic,
                   result, panic, stdout, wrote, lastEval, before,
                   calls, overlap>>

\* main, line 228: `while running.load(..)`
LoopCheck(p) ==
    /\ pc[p] = "loop_check"
    /\ pc' = Upd(pc, p, IF running[p] THEN "load_thresholds" ELSE "terminating")
    /\ UNCHANGED <<store, opt, running, thresholds, rx_stored, tx_stored,
                   traffic, result, panic, stdout, wrote, lastEval, before,
                   calls, overlap>>

\* Faulty variant: the load writes the default back for every threshold that
\* is missing from the store.
LoadThresholdsWriteBack(p) ==
    /\ pc[p] = "load_thresholds"
    /\ LET vec == ThresholdsVec(store) IN
       IF Len(vec) < 4
       THEN /\ Panic(p, 97 + Len(vec))
            /\ UNCHANGED <<thresholds, store>>
       ELSE /\ thresholds' = Upd(thresholds, p, ThresholdsOf(vec))
            /\ store' = [key \in Keys |->
                            IF key \in ThresholdKeys /\ store[key] = Absent
                            THEN Uint(0) ELSE store[key]]
            /\ pc' = Upd(pc, p, "eval_read_rx")
            /\ UNCHANGED panic
    /\ UNCHANGED <<opt, running, rx_stored, tx_stored, traffic, result,
                   stdout, wrote, lastEval, before, calls, overlap>>

\* main, line 230: Thresholds::get (lines 65-102).  The struct literal indexes
\* the vector in order, so a vector of n < 4 elements panics at line 97 + n.
LoadThresholds(p) ==
    /\ pc[p] = "load_thresholds"
    /\ LET vec == ThresholdsVec(store) IN
       IF Len(vec) < 4
       THEN /\ Panic(p, 97 + Len(vec))
            /\ UNCHANGED thresholds
       ELSE /\ thresholds' = Upd(thresholds, p, ThresholdsOf(vec))
            /\ pc' = Upd(pc, p, "eval_read_rx")
            /\ UNCHANGED panic
    /\ UNCHANGED <<store, opt, running, rx_stored, tx_stored, traffic, result,
                   stdout, wrote, lastEval, before, calls, overlap>>

\* One `store.get(key).unwrap()` of set_alert_flags with the `if let
\* Value::Uint(..)` that follows: a value that is no Uint skips the block.
EvalRead(p, key, line, block, skip) ==
    LET r == StoreGet(store, key) IN
    IF r.ok
    THEN /\ pc' = Upd(pc, p, IF IsUint(r.val) THEN block ELSE skip)
         /\ UNCHANGED panic
    ELSE Panic(p, line)

\* Faulty variant: the flag is raised only by the evaluation that first finds the
\* total above the threshold (edge-triggered).
EvalFlagEdge(p, key, total, threshold, line, next) ==
    LET flag == Exceeds(total, threshold) /\ store[key] # Bool(TRUE) IN
    \/ /\ store' = StoreSet(store, key, Bool(flag))
       /\ wrote' = Upd(wrote, p, Append(wrote[p], key))
       /\ pc' = Upd(pc, p, next)
       /\ UNCHANGED panic
    \/ /\ Panic(p, IF flag THEN line ELSE line + 4)
       /\ UNCHANGED <<store, wrote>>

\* One `if total > threshold { set(flag, true).unwrap() } else { set(flag,
\* false).unwrap() }` of set_alert_flags; a failed set panics at its unwrap.
EvalFlag(p, key, total, threshold, line, next) ==
    LET flag == Exceeds(total, threshold) IN
    \/ /\ store' = StoreSet(store, key, Bool(flag))
       /\ wrote' = Upd(wrote, p, Append(wrote[p], key))
       /\ pc' = Upd(pc, p, next)
       /\ UNCHANGED panic
    \/ /\ Panic(p, IF flag THEN line ELSE line + 4)
       /\ UNCHANGED <<store, wrote>>

\* set_alert_flags, lines 107-108
EvalReadRx(p) ==
    /\ pc[p] = "eval_read_rx"
    /\ EvalRead(p, RX, 107, "eval_rx_warn", "eval_read_tx")
    /\ rx_stored' = Upd(rx_stored, p, UnwrapOr(StoreGet(store, RX), NoVal))
    /\ wrote' = Upd(wrote, p, << >>)
    /\ UNCHANGED <<store, opt, running, thresholds, tx_stored, traffic, result,
                   stdout, lastEval, before, calls, overlap>>

\* set_alert_flags, lines 109-117
EvalSetRxWarn(p) ==
    /\ pc[p] = "eval_rx_warn"
    /\ EvalFlag(p, RX_WARN_ALERT, rx_stored[p].n, thresholds[p].rx_warn, 112,
                "eval_rx_crit")
    /\ UNCHANGED <<opt, running, thresholds, rx_stored, tx_stored, traffic,
                   result, stdout, lastEval, before, calls, overlap>>

\* Faulty variant: the critical flag is computed from a second read of the
\* stored total.
EvalSetRxCritReread(p) ==
    /\ pc[p] = "eval_rx_crit"
    /\ EvalFlag(p, RX_CRIT_ALERT, UnwrapOr(StoreGet(store, RX), rx_stored[p]).n,
                thresholds[p].rx_crit, 121, "eval_read_tx")
    /\ UNCHANGED <<opt, running, thresholds, rx_stored, tx_stored, traffic,
                   result, stdout, lastEval, before, calls, overlap>>

\* set_alert_flags, lines 118-126
EvalSetRxCrit(p) ==
    /\ pc[p] = "eval_rx_crit"
    /\ EvalFlag(p, RX_CRIT_ALERT, rx_stored[p].n, thresholds[p].rx_crit, 121,
                "eval_read_tx")
    /\ UNCHANGED <<opt, running, thresholds, rx_stored, tx_stored, traffic,
                   result, stdout, lastEval, before, calls, overlap>>

\* set_alert_flags, lines 129-130
EvalReadTx(p) ==
    /\ pc[p] = "eval_read_tx"
    /\ EvalRead(p, TX, 129, "eval_tx_warn", "eval_ret")
    /\ tx_stored' = Upd(tx_stored, p, UnwrapOr(StoreGet(store, TX), NoVal))
    /\ UNCHANGED <<store, opt, running, thresholds, rx_stored, traffic, result,
                   stdout, wrote, lastEval, before, calls, overlap>>

\* set_alert_flags, lines 131-139
EvalSetTxWarn(p) ==
    /\ pc[p] = "eval_tx_warn"
    /\ EvalFlag(p, TX_WARN_ALERT, tx_stored[p].n, thresholds[p].tx_warn, 134,
                "eval_tx_crit")
    /\ UNCHANGED <<opt, running, thresholds, rx_stored, tx_stored, traffic,
                   result, stdout, lastEval, before, calls, overlap>>

\* set_alert_flags, lines 140-148
EvalSetTxCrit(p) ==
    /\ pc[p] = "eval_tx_crit"
    /\ EvalFlag(p, TX_CRIT_ALERT, tx_stored[p].n, thresholds[p].tx_crit, 143,
                "eval_ret")
    /\ UNCHANGED <<opt, running, thresholds, rx_stored, tx_stored, traffic,
                   result, stdout, lastEval, before, calls, overlap>>

\* set_alert_flags returns (line 150): its locals die; lastEval remembers the
\* store as this evaluation left it.
EvalReturn(p) ==
    /\ pc[p] = "eval_ret"
    /\ lastEval' = Upd(lastEval, p, store)
    /\ rx_stored' = Upd(rx_stored, p, NoVal)
    /\ tx_stored' = Upd(tx_stored, p, NoVal)
    /\ pc' = Upd(pc, p, "sleep")
    /\ UNCHANGED <<store, opt, running, thresholds, traffic, result, panic,
                   stdout, wrote, before, calls, overlap>>

\* Faulty variant: the sleep wakes on the signal and leaves the loop at once.
SleepInterruptible(p) ==
    /\ pc[p] = "sleep"
    /\ thresholds' = Upd(thresholds, p, NoThresholds)
    /\ pc' = Upd(pc, p, IF running[p] THEN "loop_check" ELSE "terminating")
    /\ UNCHANGED <<store, opt, running, rx_stored, tx_stored, traffic, result,
                   panic, stdout, wrote, lastEval, before, calls, overlap>>

\* Faulty variant: every tick of the loop accumulates before it evaluates.
SleepThenAccumulate(p) ==
    /\ pc[p] = "sleep"
    /\ thresholds' = Upd(thresholds, p, NoThresholds)
    /\ pc' = Upd(pc, p, "acc_read_rx")
    /\ UNCHANGED <<store, opt, running, rx_stored, tx_stored, traffic, result,
                   panic, stdout, wrote, lastEval, before, calls, overlap>>

\* main, line 235: thread::sleep(five_secs) ends, and with it the loop body
Sleep(p) ==
    /\ pc[p] = "sleep"
    /\ thresholds' = Upd(thresholds, p, NoThresholds)
    /\ pc' = Upd(pc, p, "loop_check")
    /\ UNCHANGED <<store, opt, running, rx_stored, tx_stored, traffic, result,
                   panic, stdout, wrote, lastEval, before, calls, overlap>>

\* main, line 238
Terminating(p) ==
    /\ pc[p] = "terminating"
    /\ stdout' = Upd(stdout, p, Append(stdout[p], "Terminating gracefully..."))
    /\ pc' = Upd(pc, p, "main_ret")
    /\ UNCHANGED <<store, opt, running, thresholds, rx_stored, tx_stored,
                   traffic, result, panic, wrote, lastEval, before,
                   calls, overlap>>

\* main, line 241: Ok(())
MainRet(p) ==
    /\ pc[p] = "main_ret"
    /\ pc' = Upd(pc, p, "exit")
    /\ UNCHANGED <<store, opt, running, thresholds, rx_stored, tx_stored,
                   traffic, result, panic, stdout, wrote, lastEval, before,
                   calls, overlap>>

\* Positions of the daemon loop, where the ctrlc handler is installed.
LoopPcs ==
    {"loop_check", "load_thresholds", "eval_read_rx", "eval_rx_warn",
     "eval_rx_crit", "eval_read_tx", "eval_tx_warn", "eval_tx_crit",
     "eval_ret", "sleep"}

\* The ctrlc handler (lines 220-222) runs on SIGINT / SIGTERM.
Signal(p) ==
    /\ pc[p] \in LoopPcs \cup {"terminating", "main_ret"}
    /\ running' = Upd(running, p, FALSE)
    /\ UNCHANGED <<store, pc, opt, thresholds, rx_stored, tx_stored, traffic,
                   result, panic, stdout, wrote, lastEval, before,
                   calls, overlap>>

Next ==
    \E p \in Procs :
        \/ MainSave(p)
        \/ AccReadRx(p)
        \/ AccReadTx(p)
        \/ AccProbe(p)
        \/ AccWriteRx(p)
        \/ AccWriteTx(p)
        \/ SaveUnwrap(p)
        \/ MainList(p)
        \/ MainDaemon(p)
        \/ LoopCheck(p)
        \/ LoadThresholds(p)
        \/ EvalReadRx(p)
        \/ EvalSetRxWarn(p)
        \/ EvalSetRxCrit(p)
        \/ EvalReadTx(p)
        \/ EvalSetTxWarn(p)
        \/ EvalSetTxCrit(p)
        \/ EvalReturn(p)
        \/ Sleep(p)
        \/ Terminating(p)
        \/ MainRet(p)
        \/ Signal(p)

Spec == Init /\ [][Next]_vars

\* One step of process p's own code: every action but the signal handler,
\* which runs only when the environment delivers a signal.
ProcStep(p) ==
    \/ MainSave(p)
    \/ AccReadRx(p)
    \/ AccReadTx(p)
    \/ AccProbe(p)
    \/ AccWriteRx(p)
    \/ AccWriteTx(p)
    \/ SaveUnwrap(p)
    \/ MainList(p)
    \/ MainDaemon(p)
    \/ LoopCheck(p)
    \/ LoadThresholds(p)
    \/ EvalReadRx(p)
    \/ EvalSetRxWarn(p)
    \/ EvalSetRxCrit(p)
    \/ EvalReadTx(p)
    \/ EvalSetTxWarn(p)
    \/ EvalSetTxCrit(p)
    \/ EvalReturn(p)
    \/ Sleep(p)
    \/ Terminating(p)
    \/ MainRet(p)

\* The process is scheduled fairly: the main thread is never blocked for good
\* (the sleep of line 235 ends), so a step it can take is eventually taken.
\* Every such step moves the process's position.
FairSpec == Init /\ [][Next]_vars /\ \A p \in Procs : WF_pc(ProcStep(p))

\* Two invocations with --save alone run against the same store path; the
\* store holds totals the program wrote earlier, or none.
SaverOpt == [daemon |-> FALSE, list |-> FALSE, save |-> TRUE]

SaverStores ==
    { MkStore([key \in TrafficKeys |-> IF key = RX THEN rx ELSE Uint(1)],
              [key \in ThresholdKeys |-> Absent], AllAlerts(Absent)) :
        rx \in {Absent, Uint(1)} }

InitSavers ==
    /\ InitLocals
    /\ pc = [p \in Procs |-> "main_save"]
    /\ opt = [p \in Procs |-> SaverOpt]
    /\ store \in SaverStores

NextSavers ==
    \E p \in Procs :
        \/ MainSave(p)
        \/ AccReadRx(p)
        \/ AccReadTx(p)
        \/ AccProbe(p)
        \/ AccWriteRx(p)
        \/ AccWriteTx(p)
        \/ SaveUnwrap(p)
        \/ MainList(p)
        \/ MainDaemon(p)
        \/ MainRet(p)

SpecSavers == InitSavers /\ [][NextSavers]_vars

\* A daemon and an invocation with --save alone run against the same store
\* path.
DaemonOpt == [daemon |-> TRUE, list |-> FALSE, save |-> FALSE]

DaemonSaverStores ==
    { MkStore([key \in TrafficKeys |-> Uint(1)],
              [key \in ThresholdKeys |-> IF key \in {RX_WARN, TX_WARN} THEN warn ELSE crit],
              al) :
        warn \in {Uint(1), Uint(2)}, crit \in {Uint(1), Uint(2)},
        al \in {AllAlerts(Absent), AllAlerts(Bool(TRUE))} }

InitDaemonSaver ==
    /\ InitLocals
    /\ pc = [p \in Procs |-> "main_save"]
    /\ opt = [p \in Procs |-> IF p = "p1" THEN DaemonOpt ELSE SaverOpt]
    /\ store \in DaemonSaverStores

SpecDaemonSaver == InitDaemonSaver /\ [][Next]_vars

----------------------------------------------------------------------------
(* Properties *)

\* update_transmission_totals has returned Ok(()) and main has not yet
\* unwrapped it: its locals and the store it was called on are still known.
AccumulateOk(p) == pc[p] = "acc_ret" /\ result[p] = "Ok"

\* The stored totals were numbers when the call began.
HadTotals(p) == IsUint(before[p][RX]) /\ IsUint(before[p][TX])

\* C1: for all stored totals (rx0, tx0) and all probe samples (dr, dt), one
\* successful accumulate leaves the stored totals at exactly
\* (rx0 + dr, tx0 + dt), the sums being those of the integers.
C1_AccumulateAddsSample ==
    \A p \in Procs :
        AccumulateOk(p) /\ HadTotals(p) =>
            /\ store[RX] = Uint(before[p][RX].n + traffic[p].rx)
            /\ store[TX] = Uint(before[p][TX].n + traffic[p].tx)

\* The same statement for the calls whose two sums fit the integer type.
C1_AddsSampleWithinRange ==
    \A p \in Procs :
        /\ AccumulateOk(p) /\ HadTotals(p)
        /\ ~Overflows(before[p][RX].n, traffic[p].rx)
        /\ ~Overflows(before[p][TX].n, traffic[p].tx)
        => /\ store[RX] = Uint(before[p][RX].n + traffic[p].rx)
           /\ store[TX] = Uint(before[p][TX].n + traffic[p].tx)

\* set_alert_flags has run to its end (line 150) and has not yet returned.
Evaluated(p) == pc[p] = "eval_ret"

\* C2: immediately after an evaluation completes, each of the four flags
\* equals the strict comparison of the total read in that evaluation with the
\* threshold loaded for it, whatever the flag held before; a total equal to
\* its threshold leaves the flag false.
C2_FlagsAreStrictComparisons ==
    \A p \in Procs :
        Evaluated(p) =>
            /\ IsUint(store[RX]) =>
                /\ rx_stored[p] = store[RX]
                /\ store[RX_WARN_ALERT] = Bool(store[RX].n > thresholds[p].rx_warn)
                /\ store[RX_CRIT_ALERT] = Bool(store[RX].n > thresholds[p].rx_crit)
            /\ IsUint(store[TX]) =>
                /\ tx_stored[p] = store[TX]
                /\ store[TX_WARN_ALERT] = Bool(store[TX].n > thresholds[p].tx_warn)
                /\ store[TX_CRIT_ALERT] = Bool(store[TX].n > thresholds[p].tx_crit)

\* Scenario A at this scale, with tx equal to its warning threshold: only the
\* rx warning flag is raised, and the tx warning flag is not.
C2_Witness ==
    \E p \in Procs :
        /\ Evaluated(p)
        /\ IsUint(store[RX]) /\ IsUint(store[TX])
        /\ thresholds[p].rx_warn > 0
        /\ store[RX].n > thresholds[p].rx_warn
        /\ store[RX].n < thresholds[p].rx_crit
        /\ store[TX].n = thresholds[p].tx_warn
        /\ store[RX_WARN_ALERT] = Bool(TRUE)
        /\ store[RX_CRIT_ALERT] = Bool(FALSE)
        /\ store[TX_WARN_ALERT] = Bool(FALSE)
        /\ store[TX_CRIT_ALERT] = Bool(FALSE)

\* Positions inside an iteration of the daemon loop, after its flag check.
IterationPcs == LoopPcs \ {"loop_check"}

\* Positions after the loop has seen the flag cleared.
CancelledPcs == {"terminating", "main_ret", "exit"}

\* C3: a signal is only observed at the loop's flag check: the loop is left
\* only from the check and only with the flag cleared; an iteration in
\* progress goes on to its end whatever the flag holds (only a panic cuts it
\* short); and once the loop has seen the flag cleared, the process writes
\* nothing to the store any more.
C3_CancellationAtIterationBoundary ==
    [][\A p \in Procs :
        /\ (pc'[p] = "terminating" /\ pc[p] # "terminating")
              => (pc[p] = "loop_check" /\ ~running[p])
        /\ (pc[p] = "loop_check" /\ ~running[p] /\ pc'[p] # pc[p])
              => pc'[p] = "terminating"
        /\ pc[p] \in IterationPcs => pc'[p] \in LoopPcs \cup {"panicked"}
        /\ (pc[p] \in CancelledPcs /\ opt[p].daemon)
              => /\ wrote'[p] = wrote[p]
                 /\ pc'[p] # pc[p] => store' = store]_vars

\* The signal came before the evaluation was over, and the evaluation still
\* made its four writes.
C3_Witness ==
    \E p \in Procs : Evaluated(p) /\ ~running[p] /\ Len(wrote[p]) = 4

\* Lines of set_alert_flags whose unwrap panics on a store error.
EvalPanicLines == {107, 112, 116, 121, 125, 129, 134, 138, 143, 147}

\* C4: in daemon mode a store error during an evaluation (a failed get of a
\* totals key, a failed set of a flag) does not end the daemon.
C4_DaemonSurvivesStoreErrors ==
    \A p \in Procs : pc[p] = "panicked" => panic[p] \notin EvalPanicLines

\* C5: an evaluation that follows another one, totals and thresholds
\* unchanged, leaves the whole store as the earlier one left it.
C5_EvaluateIdempotent ==
    \A p \in Procs :
        (Evaluated(p) /\ lastEval[p] # NoStore) => store = lastEval[p]

\* A second evaluation is complete; the first one had flags to change.
C5_Witness ==
    \E p \in Procs :
        /\ Evaluated(p) /\ lastEval[p] # NoStore
        /\ Len(wrote[p]) = 4
        /\ store[RX_WARN_ALERT] = Bool(TRUE)
        /\ store[TX_CRIT_ALERT] = Bool(FALSE)

\* Positions of update_transmission_totals after both totals were read.
AccAfterReads == {"acc_probe", "acc_write_rx", "acc_write_tx", "acc_ret"}

\* C6: accumulate never fails because a totals key is missing: the missing
\* one is read as 0, no addition to it overflows, and after a successful call
\* its key holds the probe's count, so a first run (both missing) leaves the
\* totals equal to the sample.
C6_MissingTotalsAreZero ==
    \A p \in Procs :
        /\ (pc[p] \in AccAfterReads /\ before[p][RX] = Absent)
              => rx_stored[p] = Uint(0)
        /\ (pc[p] \in AccAfterReads /\ before[p][TX] = Absent)
              => tx_stored[p] = Uint(0)
        /\ (pc[p] = "panicked" /\ panic[p] = 171) => before[p][RX] # Absent
        /\ (pc[p] = "panicked" /\ panic[p] = 176) => before[p][TX] # Absent
        /\ (AccumulateOk(p) /\ before[p][RX] = Absent)
              => store[RX] = Uint(traffic[p].rx)
        /\ (AccumulateOk(p) /\ before[p][TX] = Absent)
              => store[TX] = Uint(traffic[p].tx)

\* A first run: both keys were missing, and now hold a sample of two
\* different positive counts.
C6_Witness ==
    \E p \in Procs :
        /\ AccumulateOk(p)
        /\ before[p][RX] = Absent /\ before[p][TX] = Absent
        /\ traffic[p].rx > 0 /\ traffic[p].tx > traffic[p].rx
        /\ store[RX] = Uint(traffic[p].rx) /\ store[TX] = Uint(traffic[p].tx)

NoThresholdStored == \A key \in ThresholdKeys : store[key] = Absent

\* C7: every missing threshold key is loaded as 0 whatever the other three
\* hold; with all four missing, an evaluation sets a flag exactly when its
\* total is positive.
C7_MissingThresholdsAreZero ==
    \A p \in Procs :
        thresholds[p] # NoThresholds =>
            /\ store[RX_WARN] = Absent => thresholds[p].rx_warn = 0
            /\ store[TX_WARN] = Absent => thresholds[p].tx_warn = 0
            /\ store[RX_CRIT] = Absent => thresholds[p].rx_crit = 0
            /\ store[TX_CRIT] = Absent => thresholds[p].tx_crit = 0
            /\ (Evaluated(p) /\ NoThresholdStored /\ IsUint(store[RX])) =>
                /\ store[RX_WARN_ALERT] = Bool(store[RX].n > 0)
                /\ store[RX_CRIT_ALERT] = Bool(store[RX].n > 0)
            /\ (Evaluated(p) /\ NoThresholdStored /\ IsUint(store[TX])) =>
                /\ store[TX_WARN_ALERT] = Bool(store[TX].n > 0)
                /\ store[TX_CRIT_ALERT] = Bool(store[TX].n > 0)

\* Scenario C: no threshold stored, totals {rx: 1, tx: 0}.
C7_Witness ==
    \E p \in Procs :
        /\ Evaluated(p) /\ NoThresholdStored
        /\ store[RX] = Uint(1) /\ store[TX] = Uint(0)
        /\ store[RX_WARN_ALERT] = Bool(TRUE)
        /\ store[RX_CRIT_ALERT] = Bool(TRUE)
        /\ store[TX_WARN_ALERT] = Bool(FALSE)
        /\ store[TX_CRIT_ALERT] = Bool(FALSE)

\* One threshold missing among three that are stored and not 0.
C7_WitnessOneMissing ==
    \E p \in Procs :
        /\ thresholds[p] # NoThresholds
        /\ store[RX_CRIT] = Absent
        /\ thresholds[p].rx_warn > 0
        /\ thresholds[p].tx_warn > 0
        /\ thresholds[p].tx_crit > 0

NotReported(report) == \A i \in DOMAIN report : report[i].name # MonitoredIface

\* C8: when the monitored interface is not in the probe's report, the lookup
\* yields nothing, accumulate does not go on to its writes but fails, and the
\* store is as it was before the call.
C8_UnknownInterfaceWritesNothing ==
    \A p \in Procs :
        /\ pc[p] = "acc_probe" =>
              \A report \in Reports :
                  NotReported(report) => TrafficGet(report, MonitoredIface) = None
        /\ pc[p] \in {"acc_write_rx", "acc_write_tx", "acc_ret"}
              => traffic[p] # None
        /\ (pc[p] = "panicked" /\ panic[p] = 167) =>
              /\ traffic[p] = None
              /\ wrote[p] = << >>
              /\ store = before[p]

\* The lookup failed on a store that held both totals.
C8_Witness ==
    \E p \in Procs :
        /\ pc[p] = "panicked" /\ panic[p] = 167
        /\ IsUint(store[RX]) /\ IsUint(store[TX])
        /\ store[RX].n > 0

\* C9: no step leaves a stored total smaller than it was, or removes it, also
\* when the stored total plus the sample exceeds the unsigned range.
C9_TotalsNeverDecrease ==
    [][\A key \in TrafficKeys :
        IsUint(store[key]) =>
            /\ IsUint(store'[key])
            /\ store'[key].n >= store[key].n]_vars

\* Lines of Thresholds::get whose indexing panics on a short vector.
LoadPanicLines == {97, 98, 99, 100}

\* C10: Thresholds::get never fails, whatever the store holds.
C10_ThresholdLoadNeverFails ==
    \A p \in Procs : pc[p] = "panicked" => panic[p] \notin LoadPanicLines

\* C11: every completed evaluation has written all four alert flags: none
\* keeps an earlier value and none stays uncreated.
C11_EvaluationWritesAllFlags ==
    \A p \in Procs :
        Evaluated(p) =>
            wrote[p] = <<RX_WARN_ALERT, RX_CRIT_ALERT, TX_WARN_ALERT, TX_CRIT_ALERT>>

\* The same statement for the evaluations that find both totals to be
\* unsigned integers.
C11_WritesAllFlagsForNumbers ==
    \A p \in Procs :
        (Evaluated(p) /\ IsUint(store[RX]) /\ IsUint(store[TX])) =>
            wrote[p] = <<RX_WARN_ALERT, RX_CRIT_ALERT, TX_WARN_ALERT, TX_CRIT_ALERT>>

\* C12: no step of the daemon loop, and no step of a process that has
\* completed an evaluation, changes a key other than the four alert flags:
\* the loop never accumulates.
C12_DaemonLoopKeepsTotals ==
    [][\A p \in Procs :
        ((pc[p] \in LoopPcs \/ lastEval[p] # NoStore) /\ pc'[p] # pc[p]) =>
            /\ \A key \in Keys \ AlertKeys : store'[key] = store[key]
            /\ calls'[p] = calls[p]]_vars

\* The daemon sleeps after an evaluation that raised the rx warning on the
\* total its one accumulation left in the store.
C12_Witness ==
    \E p \in Procs :
        /\ pc[p] = "sleep" /\ lastEval[p] # NoStore
        /\ calls[p] = 1
        /\ store[RX] = Uint(2)
        /\ store[RX_WARN_ALERT] = Bool(TRUE)

\* C13: an accumulate that returns Ok has written exactly twice, rx then tx;
\* one that returns an error has written nothing, or rx only, and then the rx
\* total is the updated one and the tx total is the one the call found.
C13_AccumulateWritesRxThenTx ==
    \A p \in Procs :
        pc[p] = "acc_ret" =>
            /\ result[p] = "Ok" => wrote[p] = <<RX, TX>>
            /\ result[p] = "Err" =>
                  \/ wrote[p] = << >> /\ store = before[p]
                  \/ /\ wrote[p] = <<RX>>
                     /\ store[RX] = Uint(WrappingAdd(rx_stored[p].n, traffic[p].rx))
                     /\ store[TX] = before[p][TX]

\* The same statement for the calls that read two unsigned integers (a
\* missing total counts as the integer 0).
C13_WritesRxThenTxForNumbers ==
    \A p \in Procs :
        (pc[p] = "acc_ret" /\ IsUint(rx_stored[p]) /\ IsUint(tx_stored[p])) =>
            /\ result[p] = "Ok" => wrote[p] = <<RX, TX>>
            /\ result[p] = "Err" =>
                  \/ wrote[p] = << >> /\ store = before[p]
                  \/ /\ wrote[p] = <<RX>>
                     /\ store[RX] = Uint(WrappingAdd(rx_stored[p].n, traffic[p].rx))
                     /\ store[TX] = before[p][TX]

\* C15: no step writes a threshold key, and the step that loads the
\* thresholds leaves every key of the store as it was.
C15_ThresholdsReadOnly ==
    [][/\ \A key \in ThresholdKeys : store'[key] = store[key]
       /\ \A p \in Procs :
            (pc[p] = "load_thresholds" /\ pc'[p] # pc[p]) => store' = store]_vars

\* An evaluation has completed on thresholds loaded from a store that lacks
\* the rx warning threshold and holds the rx critical one.
C15_Witness ==
    \E p \in Procs :
        /\ Evaluated(p)
        /\ thresholds[p] # NoThresholds
        /\ store[RX_WARN] = Absent
        /\ store[RX_CRIT] = Uint(2)
        /\ thresholds[p].rx_warn = 0
        /\ thresholds[p].rx_crit = 2

\* C16: a daemon whose store lacks a total does not fail at the evaluation's
\* read of that total.
C16_DaemonToleratesAbsentTotals ==
    \A p \in Procs :
        /\ (pc[p] = "panicked" /\ store[RX] = Absent) => panic[p] # 107
        /\ (pc[p] = "panicked" /\ store[TX] = Absent) => panic[p] # 129

\* C19: an invocation with both save and daemon that is in the daemon loop, or
\* past it, has called accumulate exactly once and that call has returned;
\* its evaluations read the totals the call left in the store.
C19_AccumulateOnceBeforeLoop ==
    \A p \in Procs :
        (opt[p].save /\ opt[p].daemon /\ pc[p] \in LoopPcs \cup CancelledPcs) =>
            /\ calls[p] = 1
            /\ before[p] = NoStore /\ result[p] = "none"
            /\ (Evaluated(p) /\ IsUint(store[RX])) => rx_stored[p] = store[RX]
            /\ (Evaluated(p) /\ IsUint(store[TX])) => tx_stored[p] = store[TX]

\* A second evaluation of a save-and-daemon invocation is complete, on the
\* totals its accumulation wrote.
C19_Witness ==
    \E p \in Procs :
        /\ opt[p].save /\ opt[p].daemon
        /\ Evaluated(p) /\ lastEval[p] # NoStore
        /\ calls[p] = 1
        /\ wrote[p] = <<RX_WARN_ALERT, RX_CRIT_ALERT, TX_WARN_ALERT, TX_CRIT_ALERT>>
        /\ store[RX] = Uint(3)

\* C14: once the signal handler has cleared the flag of a daemon in its loop,
\* the daemon eventually prints the termination notice and exits, unless a
\* store operation of the evaluation fails first.
C14_DaemonTerminates ==
    \A p \in Procs :
        (pc[p] \in LoopPcs /\ ~running[p]) ~>
            \/ pc[p] = "exit" /\ stdout[p] # << >>
            \/ pc[p] = "panicked" /\ panic[p] \in EvalPanicLines

\* The same statement with every panic of the iteration in progress allowed
\* for.
C14_TerminatesOrPanics ==
    \A p \in Procs :
        (pc[p] \in LoopPcs /\ ~running[p]) ~>
            \/ pc[p] = "exit" /\ stdout[p] # << >>
            \/ pc[p] = "panicked"

\* A flag cleared inside the loop stays cleared, whatever signals follow, and
\* the exit state has no further transition.
C14_SecondSignalChangesNothing ==
    [][\A p \in Procs :
        /\ (~running[p] /\ pc[p] \in LoopPcs) => ~running'[p]
        /\ pc[p] = "exit" => pc'[p] = "exit"]_vars

\* The total a call found under `key` when it began, a missing one being 0.
Found(p, key) == StoredOrZero(before[p], key).n

\* C17: when no two accumulate calls overlap, each call that returns Ok leaves
\* the totals it found plus its own sample, and two such calls leave the
\* totals the first one found plus both samples (sums of the machine
\* integers).  The witness is the overlapping execution that loses a sample.
C17_SequentialAccumulatesAddBoth ==
    [][~overlap =>
        /\ \A p \in Procs :
              (pc[p] = "acc_write_tx" /\ pc'[p] = "acc_ret" /\ result'[p] = "Ok") =>
                  /\ store'[RX] = Uint(WrappingAdd(Found(p, RX), traffic[p].rx))
                  /\ store'[TX] = Uint(WrappingAdd(Found(p, TX), traffic[p].tx))
        /\ (\A p \in Procs : AccumulateOk(p)) =>
              \E p \in Procs : \E q \in Procs \ {p} :
                  /\ store[RX] = Uint(WrappingAdd(WrappingAdd(Found(p, RX), traffic[p].rx),
                                                  traffic[q].rx))
                  /\ store[TX] = Uint(WrappingAdd(WrappingAdd(Found(p, TX), traffic[p].tx),
                                                  traffic[q].tx))
                  /\ before[q][RX] = Uint(WrappingAdd(Found(p, RX), traffic[p].rx))
                  /\ before[q][TX] = Uint(WrappingAdd(Found(p, TX), traffic[p].tx))]_vars

\* Two overlapping calls have both returned Ok on totals (1, 1), each with the
\* sample (1, 1), and the store holds (2, 2): one sample is lost.
C17_Witness ==
    /\ overlap
    /\ \A p \in Procs :
          /\ AccumulateOk(p)
          /\ before[p][RX] = Uint(1) /\ before[p][TX] = Uint(1)
          /\ traffic[p] = Some(1, 1)
    /\ store[RX] = Uint(2)
    /\ store[TX] = Uint(2)

\* Two calls that did not overlap have both returned Ok and the store holds
\* the totals (none, 1) plus both samples.
C17_WitnessSequential ==
    /\ ~overlap
    /\ \A p \in Procs : AccumulateOk(p) /\ traffic[p] = Some(1, 1)
    /\ store[RX] = Uint(2)
    /\ store[TX] = Uint(3)

\* C18: after every completed evaluation whose warning threshold does not
\* exceed its critical threshold, a raised critical flag comes with a raised
\* warning flag, for rx and for tx, also while another invocation accumulates.
C18_CriticalImpliesWarning ==
    \A p \in Procs :
        Evaluated(p) =>
            /\ thresholds[p].rx_warn <= thresholds[p].rx_crit =>
                  (store[RX_CRIT_ALERT] = Bool(TRUE) => store[RX_WARN_ALERT] = Bool(TRUE))
            /\ thresholds[p].tx_warn <= thresholds[p].tx_crit =>
                  (store[TX_CRIT_ALERT] = Bool(TRUE) => store[TX_WARN_ALERT] = Bool(TRUE))

\* An evaluation is complete whose rx total was changed by the other
\* invocation after the evaluation had read it: the flags are those of the
\* total read, the store holds a total above the critical threshold.
C18_Witness ==
    \E p \in Procs :
        /\ Evaluated(p)
        /\ thresholds[p].rx_warn = 1 /\ thresholds[p].rx_crit = 2
        /\ rx_stored[p] = Uint(1)
        /\ store[RX] = Uint(3)
        /\ store[RX_WARN_ALERT] = Bool(FALSE)
        /\ store[RX_CRIT_ALERT] = Bool(FALSE)
        /\ wrote[p] = <<RX_WARN_ALERT, RX_CRIT_ALERT, TX_WARN_ALERT, TX_CRIT_ALERT>>

====
